---- MODULE Spec2Model ----
(***************************************************************************)
(* A model of intel_qsv.py: the batch watermarking script that validates   *)
(* its options, discovers video files under the input directory and runs   *)
(* one ffmpeg process per file, sequentially.                              *)
(*                                                                         *)
(* File names are sequences of one-character strings, so that glob         *)
(* matching, PurePath.stem / PurePath.suffix and str.replace are computed  *)
(* character by character; a path is a sequence of names.  Str and PathStr *)
(* convert them to the strings that are put on the ffmpeg command line.    *)
(*                                                                         *)
(* Modelling assumptions (the environment, not the script):                *)
(*  - pathlib with POSIX flavour: "/" is the only separator and glob       *)
(*    matching is case-sensitive;                                          *)
(*  - the order in which rglob yields the matches of one pattern is not    *)
(*    specified by pathlib: any order is allowed;                          *)
(*  - mkdir and the spawn of ffmpeg themselves do not fail (no permission  *)
(*    error, no regular file in the way, ffmpeg is on PATH); the exit      *)
(*    status of ffmpeg is arbitrary.                                       *)
(***************************************************************************)
EXTENDS Integers, Sequences, FiniteSets, TLC

VARIABLES
    args,              \* the parsed command line (argparse namespace), never modified
    font_exists,       \* file system: whether font_file exists
    input_tree,        \* file system: the entries below input_directory
    dirs,              \* file system: directories that exist at or below output_directory
    pc,                \* position of main
    video_extensions,  \* main's local list of glob patterns (line 73)
    video_files,       \* main's local list of discovered paths (line 76)
    idx,               \* loop index of the for loop (line 87)
    printed,           \* lines written to standard output, in order
    invocations,       \* the subprocess.run calls made so far, in order
    running,           \* number of ffmpeg child processes alive
    exit_status,       \* exit status of the script once it has ended, -1 before
    probe              \* argument/result cell of the pure-function specifications

vars == <<args, font_exists, input_tree, dirs, pc, video_extensions, video_files,
          idx, printed, invocations, running, exit_status, probe>>

----------------------------------------------------------------------------
(* Bounds and program constants *)

\* largest number of entries below the input directory
MaxEntries == 3

\* how far beyond 0..51 the quality values of the validator check reach
QualityMargin == 2

\* upper end of the accepted quality range (line 7)
MaxQuality == 51

----------------------------------------------------------------------------
(* Strings and paths *)

Range(s) == {s[i] : i \in 1..Len(s)}

\* str of a name held as a sequence of characters
RECURSIVE Str(_)
Str(cs) == IF cs = <<>> THEN "" ELSE Head(cs) \o Str(Tail(cs))

\* str(PurePosixPath): the components joined by "/"
RECURSIVE PathStr(_)
PathStr(p) ==
    IF p = <<>> THEN "."
    ELSE IF Len(p) = 1 THEN Str(p[1])
    ELSE Str(Head(p)) \o "/" \o PathStr(Tail(p))

\* str.replace('\\', '/') (line 84)
RECURSIVE ReplaceBackslash(_)
ReplaceBackslash(cs) ==
    IF cs = <<>> THEN <<>>
    ELSE <<IF Head(cs) = "\\" THEN "/" ELSE Head(cs)>> \o ReplaceBackslash(Tail(cs))

\* str.rfind('.') with 1-based positions, 0 when there is no dot
RECURSIVE RFindDot(_)
RFindDot(name) ==
    IF name = <<>> THEN 0
    ELSE IF name[Len(name)] = "." THEN Len(name)
    ELSE RFindDot(SubSeq(name, 1, Len(name) - 1))

\* PurePath.suffix: the last dot and what follows it, unless that dot is the
\* first or the last character of the name
PathSuffix(name) ==
    LET i == RFindDot(name)
    IN  IF 1 < i /\ i < Len(name) THEN SubSeq(name, i, Len(name)) ELSE <<>>

\* PurePath.stem: the name without its suffix
PathStem(name) ==
    LET i == RFindDot(name)
    IN  IF 1 < i /\ i < Len(name) THEN SubSeq(name, 1, i - 1) ELSE name

\* PurePath.with_name accepts the new name (it raises ValueError otherwise)
WithNameAccepts(name) ==
    /\ name # <<>>
    /\ "/" \notin Range(name)
    /\ name # <<".">>

\* fnmatch of one name against one pattern with * and ?, case-sensitive
RECURSIVE GlobMatch(_, _)
GlobMatch(pat, name) ==
    IF pat = <<>> THEN name = <<>>
    ELSE IF Head(pat) = "*"
         THEN GlobMatch(Tail(pat), name)
              \/ (name # <<>> /\ GlobMatch(pat, Tail(name)))
         ELSE /\ name # <<>>
              /\ (Head(pat) = "?" \/ Head(pat) = Head(name))
              /\ GlobMatch(Tail(pat), Tail(name))

----------------------------------------------------------------------------
(* Validators, lines 6-19 *)

\* a variant of validate_video_quality that rejects the upper end of the range
validate_video_quality_exclusive(video_quality) ==
    ~(0 <= video_quality /\ video_quality < MaxQuality)

\* TRUE when validate_video_quality raises ValueError
validate_video_quality(video_quality) ==
    ~(0 <= video_quality /\ video_quality <= MaxQuality)

\* TRUE when validate_video_codec raises ValueError
validate_video_codec(video_codec) ==
    video_codec \notin {"hevc_qsv", "h264_qsv"}

\* TRUE when ensure_font_file_exists raises FileNotFoundError
ensure_font_file_exists(exists) == ~exists

\* every ancestor of a path and the path itself
Prefixes(p) == {SubSeq(p, 1, k) : k \in 1..Len(p)}

\* Path.mkdir(parents=True, exist_ok=True): the directories afterwards
Mkdir(existing, p) == existing \cup Prefixes(p)

ensure_output_directory_exists(existing, output_directory) ==
    Mkdir(existing, output_directory)

----------------------------------------------------------------------------
(* Command builder, lines 21-42 *)

\* an optional string: None, or a string that may be empty
None == [some |-> FALSE, str |-> ""]
Some(s) == [some |-> TRUE, str |-> s]

\* a variant of the bitrate test that asks "is not None"
IsNotNone(b) == b.some

\* Python truthiness of an optional string (line 36)
Truthy(b) == b.some /\ b.str # ""

\* list.index: position of the first element equal to x (1-based)
IndexOf(list, x) == CHOOSE i \in 1..Len(list) : list[i] = x /\ \A j \in 1..(i - 1) : list[j] # x

\* the drawtext filter expression (lines 26-29)
DrawText(escaped_font_file, font_color, font_size) ==
    "drawtext=fontcolor=" \o font_color \o ":fontsize=" \o ToString(font_size)
    \o ":fontfile='" \o escaped_font_file \o "':text='PINSE.CLUB':"
    \o "x='if(eq(mod(n\\,2000)\\,0)\\,rand(0\\,(w-text_w))\\,x)':"
    \o "y='if(eq(mod(n\\,2000)\\,0)\\,rand(0\\,(h-text_h))\\,y)':"
    \o "enable='lt(mod(n\\,2000)\\,1200)'"

\* the list as first built (lines 22-34); file and output_file_name are
\* already str()-converted
BaseCommand(file, output_file_name, escaped_font_file, font_color, font_size, video_codec, video_quality) ==
    << "ffmpeg",
       "-hwaccel_output_format", "qsv",
       "-i", file,
       "-vf", DrawText(escaped_font_file, font_color, font_size),
       "-c:v", video_codec,
       "-global_quality", ToString(video_quality),
       "-c:a", "copy",
       "-y", output_file_name >>

\* the bitrate override (lines 36-40): the first "-global_quality" of the
\* list and the element after it are overwritten
OverrideBitrate(ffmpeg_command, bitrate) ==
    IF Truthy(bitrate)
    THEN LET crf_index == IndexOf(ffmpeg_command, "-global_quality")
         IN  [ffmpeg_command EXCEPT ![crf_index] = "-b:v",
                                    ![crf_index + 1] = bitrate.str]
    ELSE ffmpeg_command

build_ffmpeg_command(file, output_file_name, escaped_font_file, font_color, font_size, video_codec, video_quality, bitrate) ==
    OverrideBitrate(
        BaseCommand(file, output_file_name, escaped_font_file, font_color,
                    font_size, video_codec, video_quality),
        bitrate)

----------------------------------------------------------------------------
(* File discovery, lines 44-48 *)

\* the patterns of line 73
video_extensions_list ==
    << <<"*", ".", "m", "p", "4">>, <<"*", ".", "a", "v", "i">>,
       <<"*", ".", "m", "k", "v">>, <<"*", ".", "m", "o", "v">>,
       <<"*", ".", "w", "m", "v">>, <<"*", ".", "f", "l", "v">>,
       <<"*", ".", "t", "s">>,      <<"*", ".", "v", "o", "b">>,
       <<"*", ".", "w", "e", "b", "m">>, <<"*", ".", "3", "g", "p">>,
       <<"*", ".", "m", "4", "v">>, <<"*", ".", "r", "m", "v", "b">> >>

\* Path.rglob(ext): every entry below the directory, at any depth, regular
\* file or directory, whose own name matches the pattern
rglob(input_directory, tree, ext) ==
    {input_directory \o e.path : e \in {x \in tree : GlobMatch(ext, x.path[Len(x.path)])}}

\* the orders in which a generator may yield the elements of a set
Orderings(S) ==
    {f \in [1..Cardinality(S) -> S] : \A i, j \in 1..Cardinality(S) : f[i] = f[j] => i = j}

\* the lists check_video_files may return: for each pattern in turn, the
\* matches of that pattern are appended (list.extend)
RECURSIVE check_video_files(_, _, _)
check_video_files(input_directory, tree, exts) ==
    IF exts = <<>> THEN {<<>>}
    ELSE {first \o rest :
            first \in Orderings(rglob(input_directory, tree, Head(exts))),
            rest \in check_video_files(input_directory, tree, Tail(exts))}

----------------------------------------------------------------------------
(* Output path, lines 89-92 *)

\* Path.relative_to for a path that lies below the directory
relative_to(file, input_directory) ==
    SubSeq(file, Len(input_directory) + 1, Len(file))

\* a variant of the output name that puts the suffix after the extension
OutputNameAfterExtension(relative_path, output_suffix) ==
    relative_path[Len(relative_path)] \o <<"_">> \o output_suffix

\* the name handed to with_name (line 92)
OutputName(relative_path, output_suffix) ==
    LET name == relative_path[Len(relative_path)]
    IN  PathStem(name) \o <<"_">> \o output_suffix \o PathSuffix(name)

\* a variant of the output path that does not mirror the sub-directory
output_file_name_flat(output_directory, relative_path, output_suffix) ==
    output_directory
    \o <<PathStem(relative_path[Len(relative_path)]) \o <<"_">> \o output_suffix
          \o PathSuffix(relative_path[Len(relative_path)])>>

\* output_directory / relative_path.with_name(...)
output_file_name(output_directory, relative_path, output_suffix) ==
    output_directory
    \o SubSeq(relative_path, 1, Len(relative_path) - 1)
    \o <<OutputName(relative_path, output_suffix)>>

\* Path.parent
Parent(p) == SubSeq(p, 1, Len(p) - 1)

----------------------------------------------------------------------------
(* Lines printed by main (the Chinese texts of the source in English) *)

QualityError == "invalid video quality, must be between 0 and 51"
CodecError == "invalid video codec, only hevc_qsv and h264_qsv are supported"
FontError(font_file) == "font file does not exist: " \o Str(font_file)
NoVideoFiles(input_directory) ==
    "no video file found in input directory '" \o PathStr(input_directory) \o "'"
FoundVideoFiles(input_directory, n) ==
    "found " \o ToString(n) \o " video files in input directory '"
    \o PathStr(input_directory) \o "'"
Progress(i, n, file, out) ==
    "[" \o ToString(i) \o "/" \o ToString(n) \o "] processing file: "
    \o PathStr(file) \o " -> " \o PathStr(out)
AllDone == "all video files processed"

----------------------------------------------------------------------------
(* The inputs of a run *)

In == <<"I", "n">>
Out == <<"O", "u", "t">>
Sub == <<"s", "u", "b">>
A_mp4 == <<"a", ".", "m", "p", "4">>
B_MP4 == <<"b", ".", "M", "P", "4">>
C_txt == <<"c", ".", "t", "x", "t">>
Clip_mov == <<"c", "l", "i", "p", ".", "m", "o", "v">>
D_mp4 == <<"d", ".", "m", "p", "4">>
Dot_mp4 == <<".", "m", "p", "4">>
A_wm_mp4 == <<"a", "_", "w", "m", ".", "m", "p", "4">>
Wm == <<"w", "m">>

File(path) == [path |-> path, is_dir |-> FALSE]
Dir(path) == [path |-> path, is_dir |-> TRUE]

\* the entries an input tree is made of, as paths relative to its root
Entries ==
    { File(<<A_mp4>>), File(<<B_MP4>>), File(<<C_txt>>), File(<<Dot_mp4>>),
      File(<<A_wm_mp4>>),
      Dir(<<Sub>>), File(<<Sub, Clip_mov>>), File(<<Sub, A_mp4>>),
      Dir(<<D_mp4>>) }

\* a tree holds the directory of each entry that lies in one
Trees ==
    {t \in SUBSET Entries :
        /\ Cardinality(t) <= MaxEntries
        /\ \A e \in t : Len(e.path) > 1 => Dir(Parent(e.path)) \in t}

QualityInputs == {0 - 1, 0, 18, MaxQuality, MaxQuality + 1}
CodecInputs == {"hevc_qsv", "h264_qsv", "libx264"}
SuffixInputs == {Wm, <<"a", "/", "b">>}
BitrateInputs == {None, Some(""), Some("2M")}

\* the namespaces parse_args may return (lines 109-120)
ArgsInputs ==
    [ input_directory : {<<In>>},
      output_directory : {<<Out>>},
      output_suffix : SuffixInputs,
      video_quality : QualityInputs,
      video_codec : CodecInputs,
      font_size : {30},
      font_color : {"white"},
      font_file : {<<"f", "\\", "s", ".", "t", "t", "f">>},
      bitrate : BitrateInputs ]

NoProbe == [op |-> "none"]

----------------------------------------------------------------------------
(* main, lines 50-106 *)

Init ==
    /\ args \in ArgsInputs
    /\ font_exists \in BOOLEAN
    /\ input_tree \in Trees
    /\ dirs = {}
    /\ pc = "validate"
    /\ video_extensions = <<>>
    /\ video_files = <<>>
    /\ idx = 0
    /\ printed = <<>>
    /\ invocations = <<>>
    /\ running = 0
    /\ exit_status = 0 - 1
    /\ probe = NoProbe

\* print(e); exit(1)
Exit1(message) ==
    /\ printed' = Append(printed, message)
    /\ exit_status' = 1
    /\ pc' = "exited"

\* a variant of the validation that ensures the output directory first
ValidateDirectoryFirst ==
    /\ pc = "validate"
    /\ dirs' = ensure_output_directory_exists(dirs, args.output_directory)
    /\ IF validate_video_quality(args.video_quality)
       THEN Exit1(QualityError)
       ELSE IF validate_video_codec(args.video_codec)
       THEN Exit1(CodecError)
       ELSE IF ensure_font_file_exists(font_exists)
       THEN Exit1(FontError(args.font_file))
       ELSE /\ pc' = "discover"
            /\ UNCHANGED <<printed, exit_status>>
    /\ UNCHANGED <<args, font_exists, input_tree, video_extensions, video_files,
                   idx, invocations, running, probe>>

\* lines 62-70: the three checks in order, then the output directory
Validate ==
    /\ pc = "validate"
    /\ IF validate_video_quality(args.video_quality)
       THEN Exit1(QualityError) /\ UNCHANGED dirs
       ELSE IF validate_video_codec(args.video_codec)
       THEN Exit1(CodecError) /\ UNCHANGED dirs
       ELSE IF ensure_font_file_exists(font_exists)
       THEN Exit1(FontError(args.font_file)) /\ UNCHANGED dirs
       ELSE /\ dirs' = ensure_output_directory_exists(dirs, args.output_directory)
            /\ pc' = "discover"
            /\ UNCHANGED <<printed, exit_status>>
    /\ UNCHANGED <<args, font_exists, input_tree, video_extensions, video_files,
                   idx, invocations, running, probe>>

\* a variant of the discovery step that goes on when nothing was found
DiscoverWithoutExit ==
    /\ pc = "discover"
    /\ video_extensions' = video_extensions_list
    /\ \E found \in check_video_files(args.input_directory, input_tree, video_extensions_list) :
        /\ video_files' = found
        /\ printed' = Append(printed, FoundVideoFiles(args.input_directory, Len(found)))
        /\ idx' = 1
        /\ pc' = "loop"
        /\ UNCHANGED exit_status
    /\ UNCHANGED <<args, font_exists, input_tree, dirs, invocations, running, probe>>

\* lines 72-81: discovery, and the exit when nothing was found
Discover ==
    /\ pc = "discover"
    /\ video_extensions' = video_extensions_list
    /\ \E found \in check_video_files(args.input_directory, input_tree, video_extensions_list) :
        /\ video_files' = found
        /\ IF found = <<>>
           THEN Exit1(NoVideoFiles(args.input_directory)) /\ UNCHANGED idx
           ELSE /\ printed' = Append(printed, FoundVideoFiles(args.input_directory, Len(found)))
                /\ idx' = 1
                /\ pc' = "loop"
                /\ UNCHANGED exit_status
    /\ UNCHANGED <<args, font_exists, input_tree, dirs, invocations, running, probe>>

\* line 84
escaped_font_file == Str(ReplaceBackslash(args.font_file))

\* lines 87-104, up to the start of the child process: with_name raises
\* ValueError for a name it does not accept, which main does not catch
StartFile ==
    /\ pc = "loop"
    /\ idx <= Len(video_files)
    /\ LET file == video_files[idx]
           relative_path == relative_to(file, args.input_directory)
           out == output_file_name(args.output_directory, relative_path, args.output_suffix)
       IN  IF ~WithNameAccepts(OutputName(relative_path, args.output_suffix))
           THEN /\ pc' = "crashed"
                /\ exit_status' = 1
                /\ UNCHANGED <<dirs, printed, invocations, running>>
           ELSE /\ dirs' = Mkdir(dirs, Parent(out))
                /\ printed' = Append(printed, Progress(idx, Len(video_files), file, out))
                /\ invocations' = Append(invocations,
                       [ index |-> idx, input |-> file, output |-> out,
                         command |-> build_ffmpeg_command(PathStr(file), PathStr(out),
                                        escaped_font_file, args.font_color, args.font_size,
                                        args.video_codec, args.video_quality, args.bitrate),
                         returncode |-> 0 - 1 ])
                /\ running' = running + 1
                /\ pc' = "waiting"
                /\ UNCHANGED exit_status
    /\ UNCHANGED <<args, font_exists, input_tree, video_extensions, video_files, idx, probe>>

\* a variant of the wait that treats a nonzero return code as fatal
\* (subprocess.run(..., check=True))
EncoderExitChecked ==
    /\ pc = "waiting"
    /\ \E rc \in {0, 1} :
        /\ invocations' = [invocations EXCEPT ![Len(invocations)].returncode = rc]
        /\ IF rc = 0
           THEN idx' = idx + 1 /\ pc' = "loop" /\ UNCHANGED exit_status
           ELSE idx' = idx /\ pc' = "crashed" /\ exit_status' = 1
    /\ running' = running - 1
    /\ UNCHANGED <<args, font_exists, input_tree, dirs, video_extensions, video_files,
                   printed, probe>>

\* line 104: subprocess.run returns when the child has exited; its return
\* code is not looked at, and the loop goes on to the next file
EncoderExit ==
    /\ pc = "waiting"
    /\ \E rc \in {0, 1} :
        invocations' = [invocations EXCEPT ![Len(invocations)].returncode = rc]
    /\ running' = running - 1
    /\ idx' = idx + 1
    /\ pc' = "loop"
    /\ UNCHANGED <<args, font_exists, input_tree, dirs, video_extensions, video_files,
                   printed, exit_status, probe>>

\* line 106, and the normal end of the script
Finish ==
    /\ pc = "loop"
    /\ idx > Len(video_files)
    /\ printed' = Append(printed, AllDone)
    /\ exit_status' = 0
    /\ pc' = "done"
    /\ UNCHANGED <<args, font_exists, input_tree, dirs, video_extensions, video_files,
                   idx, invocations, running, probe>>

Next == Validate \/ Discover \/ StartFile \/ EncoderExit \/ Finish

Spec == Init /\ [][Next]_vars

----------------------------------------------------------------------------
(* build_ffmpeg_command applied to arguments of any kind *)

\* main at rest: the variables of the run keep one value
MainIdle ==
    /\ args \in {a \in ArgsInputs : a.output_suffix = Wm /\ a.video_quality = 18
                                     /\ a.video_codec = "hevc_qsv" /\ a.bitrate = None}
    /\ font_exists = TRUE
    /\ dirs = {}
    /\ idx = 0
    /\ printed = <<>>
    /\ invocations = <<>>
    /\ running = 0
    /\ exit_status = 0 - 1

OptionWords == {"-global_quality", "-b:v"}

BuildInputs ==
    [ op : {"build_ffmpeg_command"},
      file : {"In/a.mp4"} \cup OptionWords,
      output_file_name : {"Out/a_wm.mp4", "-b:v"},
      escaped_font_file : {"f/s.ttf"},
      font_color : {"white"},
      font_size : {30},
      video_codec : {"hevc_qsv"} \cup OptionWords,
      video_quality : {0, 18, MaxQuality},
      bitrate : BitrateInputs,
      returned : {FALSE},
      result : {<<>>},
      without_bitrate : {<<>>} ]

InitBuild ==
    /\ MainIdle
    /\ input_tree = {}
    /\ pc = "probe"
    /\ video_extensions = <<>>
    /\ video_files = <<>>
    /\ probe \in BuildInputs

\* one call with the arguments of the probe, and one with bitrate=None
ApplyBuild ==
    /\ ~probe.returned
    /\ probe' = [probe EXCEPT
          !.returned = TRUE,
          !.result = build_ffmpeg_command(probe.file, probe.output_file_name,
                        probe.escaped_font_file, probe.font_color, probe.font_size,
                        probe.video_codec, probe.video_quality, probe.bitrate),
          !.without_bitrate = build_ffmpeg_command(probe.file, probe.output_file_name,
                        probe.escaped_font_file, probe.font_color, probe.font_size,
                        probe.video_codec, probe.video_quality, None)]
    /\ UNCHANGED <<args, font_exists, input_tree, dirs, pc, video_extensions, video_files,
                   idx, printed, invocations, running, exit_status>>

NextBuild == ApplyBuild

SpecBuild == InitBuild /\ [][NextBuild]_vars

----------------------------------------------------------------------------
(* check_video_files applied to a tree and a pattern list *)

\* the pattern lists tried: "*.mp4" alone, and the twelve patterns of main
PatternLists ==
    { <<video_extensions_list[1]>>, video_extensions_list }

InitDiscover ==
    /\ MainIdle
    /\ input_tree \in Trees
    /\ pc = "probe"
    /\ video_extensions \in PatternLists
    /\ video_files = <<>>
    /\ probe = [op |-> "check_video_files"]

ApplyCheckVideoFiles ==
    /\ pc = "probe"
    /\ \E found \in check_video_files(args.input_directory, input_tree, video_extensions) :
        video_files' = found
    /\ pc' = "probed"
    /\ UNCHANGED <<args, font_exists, input_tree, dirs, video_extensions, idx, printed,
                   invocations, running, exit_status, probe>>

NextDiscover == ApplyCheckVideoFiles

SpecDiscover == InitDiscover /\ [][NextDiscover]_vars

----------------------------------------------------------------------------
(* Properties of a run *)

QualityOutOfRange == args.video_quality < 0 \/ args.video_quality > 51
CodecUnknown == ~(args.video_codec = "hevc_qsv" \/ args.video_codec = "h264_qsv")
FontMissing == ~font_exists
DiscoveryHasRun == video_extensions # <<>>
Ended == pc \in {"exited", "crashed", "done"}

\* C1: when the quality check, the codec check or the font check fails, the
\* run ends with exit status 1 after printing one message, and nothing has
\* happened before: no directory was created (neither the output root nor a
\* sub-directory), discovery has not run and no encoder was started.
C1_FailFastBeforeSideEffects ==
    (pc # "validate" /\ (QualityOutOfRange \/ CodecUnknown \/ FontMissing)) =>
        /\ pc = "exited"
        /\ exit_status = 1
        /\ Len(printed) = 1
        /\ dirs = {}
        /\ ~DiscoveryHasRun
        /\ video_files = <<>>
        /\ invocations = <<>>
        /\ running = 0

\* the last of the three checks is the one that fails
C1_Witness ==
    pc = "exited" /\ FontMissing /\ ~QualityOutOfRange /\ ~CodecUnknown

\* C2: validate_video_quality fails exactly for q < 0 or q > 51,
\* validate_video_codec fails exactly for a string other than "hevc_qsv" and
\* "h264_qsv", and a run gets to file discovery only with a quality in 0..51
\* and one of these two codecs; a run with a quality out of range ends with
\* the quality message.
C2_ValidatorsAcceptExactly ==
    /\ \A q \in (0 - QualityMargin)..(51 + QualityMargin) :
          validate_video_quality(q) <=> (q < 0 \/ q > 51)
    /\ \A c \in CodecInputs \cup {"", "hevc", "HEVC_QSV", "h264_qsv ", "hevc_qsv,h264_qsv"} :
          validate_video_codec(c) <=> ~(c = "hevc_qsv" \/ c = "h264_qsv")
    /\ pc # "validate" =>
          ((pc = "exited" /\ printed = <<QualityError>>) <=> QualityOutOfRange)
    /\ (pc # "validate" /\ ~QualityOutOfRange) =>
          ((pc = "exited" /\ printed = <<CodecError>>) <=> CodecUnknown)
    /\ DiscoveryHasRun =>
          /\ args.video_quality \in 0..51
          /\ args.video_codec \in {"hevc_qsv", "h264_qsv"}

\* discovery has run with the largest accepted quality
C2_Witness ==
    DiscoveryHasRun /\ args.video_quality = 51 /\ args.video_codec = "h264_qsv"

\* the extension of a name, said without rfind: from the last dot
\* that is neither the first nor the last character of the name
ExtensionOf(name) ==
    LET dots == {k \in 2..(Len(name) - 1) : name[k] = "."}
    IN  IF dots = {} THEN <<>>
        ELSE SubSeq(name, CHOOSE k \in dots : \A m \in dots : m <= k, Len(name))

StemOf(name) == SubSeq(name, 1, Len(name) - Len(ExtensionOf(name)))

\* C5: the output path of a discovered file <input root>/<rel dir>/<stem><ext>
\* is <output root>/<rel dir>/<stem>_<suffix><ext>; In/sub/clip.mov with
\* output root Out and suffix wm gives Out/sub/clip_wm.mov.
C5_OutputPathMirrorsInput ==
    \A i \in 1..Len(invocations) :
        LET input == invocations[i].input
            root == args.input_directory
            rel_dir == SubSeq(input, Len(root) + 1, Len(input) - 1)
            name == input[Len(input)]
        IN  /\ SubSeq(input, 1, Len(root)) = root
            /\ invocations[i].output =
                  args.output_directory \o rel_dir
                  \o <<StemOf(name) \o <<"_">> \o args.output_suffix \o ExtensionOf(name)>>
            /\ (input = <<In, Sub, Clip_mov>> /\ args.output_suffix = Wm) =>
                  /\ PathStr(input) = "In/sub/clip.mov"
                  /\ PathStr(invocations[i].output) = "Out/sub/clip_wm.mov"

\* the encoder has been started on In/sub/clip.mov with suffix wm
C5_Witness ==
    \E i \in 1..Len(invocations) :
        invocations[i].input = <<In, Sub, Clip_mov>> /\ args.output_suffix = Wm

\* C6: when validation succeeds and discovery finds nothing, the run prints
\* the no-video-files message and ends with exit status 1; no encoder was
\* started, no directory other than the output root exists, and the
\* completion message is not printed.
C6_EmptyDiscoveryExits ==
    (DiscoveryHasRun /\ video_files = <<>>) =>
        /\ pc = "exited"
        /\ exit_status = 1
        /\ printed = <<NoVideoFiles(args.input_directory)>>
        /\ invocations = <<>>
        /\ running = 0
        /\ dirs = {args.output_directory}
        /\ AllDone \notin Range(printed)

\* discovery found nothing in a tree that holds b.MP4
C6_Witness ==
    pc = "exited" /\ DiscoveryHasRun /\ File(<<B_MP4>>) \in input_tree

\* C7: in a run that passes validation and discovers n >= 1 files the encoder
\* is started exactly n times, for the files in discovery order with indices
\* 1..n, never while an earlier encoder is alive, and the completion message
\* comes after the n-th encoder has returned.
C7_OneInvocationPerFile ==
    video_files # <<>> =>
        /\ running <= 1
        /\ Len(invocations) <= Len(video_files)
        /\ \A i \in 1..Len(invocations) :
              /\ invocations[i].index = i
              /\ invocations[i].input = video_files[i]
              /\ i < Len(invocations) => invocations[i].returncode # 0 - 1
        /\ AllDone \in Range(printed) =>
              /\ Len(invocations) = Len(video_files)
              /\ running = 0
        /\ Ended => Len(invocations) = Len(video_files)

\* the command main builds for the i-th discovered file
CommandFor(i) ==
    build_ffmpeg_command(
        PathStr(video_files[i]),
        PathStr(output_file_name(args.output_directory,
                    relative_to(video_files[i], args.input_directory), args.output_suffix)),
        escaped_font_file, args.font_color, args.font_size,
        args.video_codec, args.video_quality, args.bitrate)

\* C8: the return code of an encoder has no effect on the run: whatever the
\* encoders so far returned, the next one is started for the next file with
\* the command built from the options and that file alone, no file is tried
\* twice, and after the last file the run prints the completion message and
\* ends with exit status 0.
C8_ReturnCodeIgnored ==
    invocations # <<>> =>
        /\ \A i \in 1..Len(invocations) :
              /\ invocations[i].input = video_files[i]
              /\ invocations[i].command = CommandFor(i)
        /\ pc = "loop" => idx = Len(invocations) + 1
        /\ pc = "waiting" => idx = Len(invocations)
        /\ pc \in {"loop", "waiting", "done"}
        /\ pc = "done" =>
              /\ exit_status = 0
              /\ printed[Len(printed)] = AllDone
              /\ Len(invocations) = Len(video_files)

\* the run completed although the first of several encoders failed
C8_Witness ==
    /\ pc = "done"
    /\ Len(invocations) >= 2
    /\ invocations[1].returncode = 1

\* C10: no two encoders of one run are given the same output path.
C10_OutputPathsDistinct ==
    \A i, j \in 1..Len(invocations) :
        i # j =>
            /\ invocations[i].output # invocations[j].output
            /\ invocations[i].command[Len(invocations[i].command)]
                  # invocations[j].command[Len(invocations[j].command)]

\* two files of the same name in different directories have been encoded
C10_Witness ==
    \E i, j \in 1..Len(invocations) :
        /\ invocations[i].input = <<In, A_mp4>>
        /\ invocations[j].input = <<In, Sub, A_mp4>>

----------------------------------------------------------------------------
(* Properties of build_ffmpeg_command *)

BuildReturned == probe.op = "build_ffmpeg_command" /\ probe.returned

\* the two places of the list where the template of lines 22-34 has
\* "-global_quality" and the quality value (counted from 1)
RateControlSlot == {10, 11}

\* C3: with a non-empty bitrate the returned list has "-b:v" and the bitrate
\* at the two places where the list built without a bitrate has
\* "-global_quality" and the quality value, is equal to that list everywhere
\* else, and has no element "-global_quality".
C3_BitrateReplacesQualityInPlace ==
    (BuildReturned /\ probe.bitrate.some /\ probe.bitrate.str # "") =>
        /\ probe.without_bitrate[10] = "-global_quality"
        /\ probe.without_bitrate[11] = ToString(probe.video_quality)
        /\ Len(probe.result) = Len(probe.without_bitrate)
        /\ probe.result[10] = "-b:v"
        /\ probe.result[11] = probe.bitrate.str
        /\ \A i \in 1..Len(probe.result) :
              i \notin RateControlSlot => probe.result[i] = probe.without_bitrate[i]
        /\ \A i \in 1..Len(probe.result) : probe.result[i] # "-global_quality"

\* C4 as written: without a bitrate (None or the empty string) the returned
\* list has "-global_quality" immediately followed by the quality value and
\* has no element "-b:v", whatever the other arguments are.
C4_NoBitrateNeverHasBv ==
    (BuildReturned /\ ~(probe.bitrate.some /\ probe.bitrate.str # "")) =>
        /\ \E i \in 1..(Len(probe.result) - 1) :
              /\ probe.result[i] = "-global_quality"
              /\ probe.result[i + 1] = ToString(probe.video_quality)
        /\ \A i \in 1..Len(probe.result) : probe.result[i] # "-b:v"

\* C4, amended: without a bitrate (None or the empty string) the returned
\* list has "-global_quality" and the quality value in the rate-control
\* slot, and an element "-b:v" of it can only be the input file, the codec
\* or the output file argument, passed as "-b:v" by the caller.
C4_NoBitrateKeepsQuality ==
    (BuildReturned /\ ~(probe.bitrate.some /\ probe.bitrate.str # "")) =>
        /\ probe.result[10] = "-global_quality"
        /\ probe.result[11] = ToString(probe.video_quality)
        /\ \A i \in 1..Len(probe.result) :
              probe.result[i] = "-b:v" =>
                  \/ i = 5 /\ probe.file = "-b:v"
                  \/ i = 9 /\ probe.video_codec = "-b:v"
                  \/ i = 15 /\ probe.output_file_name = "-b:v"

\* the function has returned for an empty bitrate string
C4_Witness ==
    BuildReturned /\ probe.bitrate = Some("") /\ probe.video_quality = 18

----------------------------------------------------------------------------
(* Properties of check_video_files *)

CheckReturned == probe.op = "check_video_files" /\ pc = "probed"

\* the regular files of the tree whose name matches one of the patterns
MatchingFiles ==
    {args.input_directory \o e.path :
        e \in {x \in input_tree :
                 /\ ~x.is_dir
                 /\ \E k \in 1..Len(video_extensions) :
                       GlobMatch(video_extensions[k], x.path[Len(x.path)])}}

Occurrences(list, x) == Cardinality({i \in 1..Len(list) : list[i] = x})

\* C9: check_video_files returns exactly the files below the root, at any
\* depth, whose name matches one of the patterns, case-sensitively: each of
\* them once, and nothing else; with the twelve patterns of main no file is
\* returned twice.
C9_ExactlyTheMatchingFiles ==
    CheckReturned =>
        /\ \A f \in MatchingFiles : Occurrences(video_files, f) = 1
        /\ \A i \in 1..Len(video_files) : video_files[i] \in MatchingFiles
        /\ video_extensions = video_extensions_list =>
              \A i, j \in 1..Len(video_files) : video_files[i] = video_files[j] => i = j

====
